---- MODULE Spec2Model ----
(***************************************************************************)
(* Functional Partial Least Squares (skfda/preprocessing/dim_reduction/    *)
(* _fpls.py): the power-method eigensolver, the block adapter, the NIPALS  *)
(* engine and the FPLS estimator life cycle.                               *)
(*                                                                         *)
(* Floating point numbers are modelled as fixed-point numbers: the integer *)
(* n stands for the real n / SCALE.  Products and quotients are rounded to *)
(* the nearest representable value, as IEEE arithmetic rounds.  A vector   *)
(* is a sequence of numbers, a matrix a sequence of rows.                  *)
(***************************************************************************)
EXTENDS Integers, Sequences, FiniteSets, TLC

VARIABLES
    ps,     \* the activation record of one _power_solver call
    cfg,    \* the constructor arguments of the FPLS estimator
    est,    \* the attributes fit has set on the estimator
    pc,     \* the position of the running fit call, "idle" between calls
    nip,    \* the local variables of _perform_nipals
    args,   \* the arguments of the running fit call
    last,   \* the last finished call: its name, exception and return value
    n_fits, \* the number of fit calls made so far
    env,    \* the callers: the arguments they pass to fit and how often
    peer,   \* a second estimator, while it is not the one taking steps
    md      \* a MultipleDisplay: its attributes, artists and sliders

\* NDArrayFloat: one unit of the fixed-point representation is 1 / SCALE.
SCALE == 100

\* Largest max_iter the power solver is called with.
MaxIterBound == 3

(***************************************************************************)
(* numpy primitives                                                        *)
(***************************************************************************)
\* An array evaluated once, element by element, into a tuple.
V(f) == f \o <<>>

Abs(a) == IF a < 0 THEN 0 - a ELSE a

\* n / d rounded to the nearest integer (d # 0).
Round(n, d) ==
    IF d > 0 THEN (2 * n + d) \div (2 * d)
    ELSE (2 * (0 - n) + (0 - d)) \div (2 * (0 - d))

FxMul(a, b) == Round(a * b, SCALE)
FxDiv(a, b) == Round(a * SCALE, b)

RECURSIVE SumSeq(_)
SumSeq(s) == IF s = <<>> THEN 0 ELSE s[1] + SumSeq(Tail(s))

RECURSIVE MaxSeq(_)
MaxSeq(s) ==
    IF Len(s) = 1 THEN s[1]
    ELSE LET m == MaxSeq(Tail(s)) IN IF s[1] > m THEN s[1] ELSE m

\* floor of the square root of n >= 0 (bisection on [lo, hi)).
RECURSIVE IsqrtIn(_, _, _)
IsqrtIn(n, lo, hi) ==
    IF hi - lo <= 1 THEN lo
    ELSE LET mid == (lo + hi) \div 2
         IN IF mid * mid <= n THEN IsqrtIn(n, mid, hi) ELSE IsqrtIn(n, lo, mid)

\* 46341^2 exceeds the 32-bit integers.
Isqrt(n) == IsqrtIn(n, 0, IF n + 1 < 46341 THEN n + 1 ELSE 46341)

\* square root of n rounded to the nearest integer
Nearest(n, r) == IF n - r * r > r THEN r + 1 ELSE r
Sqrt(n) == Nearest(n, Isqrt(n))

\* np.dot of two vectors, unrounded: the value is scaled by SCALE * SCALE.
RawDot(u, v) == SumSeq(V([i \in 1..Len(u) |-> u[i] * v[i]]))
Dot(u, v) == Round(RawDot(u, v), SCALE)

\* np.linalg.norm of a vector
Norm(v) == Sqrt(RawDot(v, v))

VecSub(u, v) == V([i \in 1..Len(u) |-> u[i] - v[i]])
VecScaleDiv(v, d) == V([i \in 1..Len(v) |-> FxDiv(v[i], d)])

Rows(A) == Len(A)
Cols(A) == IF Len(A) = 0 THEN 0 ELSE Len(A[1])
Col(A, j) == V([i \in 1..Len(A) |-> A[i][j]])
Transpose(A) == V([j \in 1..Cols(A) |-> Col(A, j)])
MatVec(A, v) == V([i \in 1..Len(A) |-> Dot(A[i], v)])
MatMul(A, B) ==
    LET Bt == Transpose(B)
    IN V([i \in 1..Len(A) |-> V([j \in 1..Len(Bt) |-> Dot(A[i], Bt[j])])])
MatSub(A, B) ==
    V([i \in 1..Len(A) |-> V([j \in 1..Cols(A) |-> A[i][j] - B[i][j]])])
MatAdd(A, B) ==
    V([i \in 1..Len(A) |-> V([j \in 1..Cols(A) |-> A[i][j] + B[i][j]])])
Outer(u, v) ==
    V([i \in 1..Len(u) |-> V([j \in 1..Len(v) |-> FxMul(u[i], v[j])])])
Identity(n) ==
    V([i \in 1..n |-> V([j \in 1..n |-> IF i = j THEN SCALE ELSE 0])])
Zeros(r, c) == V([i \in 1..r |-> V([j \in 1..c |-> 0])])
Diag(v) ==
    V([i \in 1..Len(v) |-> V([j \in 1..Len(v) |-> IF i = j THEN v[i] ELSE 0])])

(***************************************************************************)
(* _power_solver                                                           *)
(***************************************************************************)

\* t = X[:, 0]; t_prev = np.ones(t.shape) * np.max(t) * 2; iter_count = 0
PowerInit(X, tol, max_iter) ==
    LET t == Col(X, 1)
    IN [X |-> X, tol |-> tol, max_iter |-> max_iter,
        t |-> t,
        t_prev |-> V([i \in 1..Len(t) |-> MaxSeq(t) * 2]),
        iter_count |-> 0,
        nan |-> FALSE]

\* while np.linalg.norm(t - t_prev) > tol  (a comparison with NaN is False)
PowerCond(s) == ~s.nan /\ Norm(VecSub(s.t, s.t_prev)) > s.tol

\* The exit test at the end of the loop body.
PowerBreak(iter_count, max_iter) == iter_count > max_iter

\* One pass of the loop body; brk tells that the body ended in break.
\* X @ t = 0 makes t /= 0 a vector of NaN (numpy warns, it does not raise).
PowerAssign(s, Xt, n) ==
    [state |-> [s EXCEPT !.t_prev = s.t,
                         !.t = IF n = 0 THEN Xt ELSE VecScaleDiv(Xt, n),
                         !.nan = (n = 0),
                         !.iter_count = s.iter_count + 1],
     brk |-> PowerBreak(s.iter_count + 1, s.max_iter)]

\* t = X @ t; t /= np.linalg.norm(t); iter_count += 1
PowerBody(s) ==
    PowerAssign(s, MatVec(s.X, s.t), Norm(MatVec(s.X, s.t)))

\* The whole call, as _calculate_weights uses it: the state at return.
RECURSIVE PowerLoop(_)
PowerAfter(b) == IF b.brk THEN b.state ELSE PowerLoop(b.state)
PowerLoop(s) == IF ~PowerCond(s) THEN s ELSE PowerAfter(PowerBody(s))

power_solver(X, tol, max_iter) == PowerLoop(PowerInit(X, tol, max_iter))

(***************************************************************************)
(* More numpy primitives: means, Cholesky factor, inverses                 *)
(***************************************************************************)
None == [some |-> FALSE]
Some(v) == [some |-> TRUE, v |-> v]

\* np.mean(A, axis=0)
ColMeans(A) == V([j \in 1..Cols(A) |-> Round(SumSeq(Col(A, j)), Len(A))])
\* A - v, the vector broadcast over the rows
SubRow(A, v) == V([i \in 1..Len(A) |-> VecSub(A[i], v)])
AddRow(A, v) ==
    V([i \in 1..Len(A) |-> V([j \in 1..Len(v) |-> A[i][j] + v[j]])])

IsSquare(A) == Len(A) > 0 /\ Len(A) = Cols(A)

\* Row i of the lower Cholesky factor, given the rows L above it; row holds
\* the entries 1..j-1 already computed.  ok turns FALSE on a pivot <= 0.
RECURSIVE CholRow(_, _, _, _, _)
CholRow(A, L, i, row, j) ==
    IF j > i THEN [ok |-> TRUE, row |-> row]
    ELSE LET Lj == IF j = i THEN row ELSE L[j]
             s == SumSeq(V([k \in 1..(j - 1) |-> row[k] * Lj[k]]))
             d == A[i][j] * SCALE - s
         IN IF j = i
            THEN IF d <= 0 THEN [ok |-> FALSE, row |-> row]
                 ELSE CholRow(A, L, i, Append(row, Sqrt(d)), j + 1)
            ELSE CholRow(A, L, i, Append(row, Round(d, L[j][j])), j + 1)

RECURSIVE CholRows(_, _, _)
CholRows(A, L, i) ==
    IF i > Len(A) THEN [ok |-> TRUE, L |-> L]
    ELSE LET r == CholRow(A, L, i, <<>>, 1)
         IN IF ~r.ok THEN [ok |-> FALSE, L |-> L]
            ELSE CholRows(A, Append(L,
                     V([j \in 1..Len(A) |-> IF j <= i THEN r.row[j] ELSE 0])),
                     i + 1)

\* np.linalg.cholesky: ok = FALSE stands for LinAlgError
Cholesky(A) == CholRows(A, <<>>, 1)

\* np.linalg.inv of a lower triangular matrix with a positive diagonal,
\* by forward substitution, row after row.
RECURSIVE TriInvRows(_, _, _)
TriInvRows(L, M, i) ==
    IF i > Len(L) THEN M
    ELSE LET row == V([j \in 1..Len(L) |->
                 IF j > i THEN 0
                 ELSE IF j = i THEN FxDiv(SCALE, L[i][i])
                 ELSE Round(0 - SumSeq(V([k \in 1..(i - 1) |->
                                 IF k < j THEN 0 ELSE L[i][k] * M[k][j]])),
                            L[i][i])])
         IN TriInvRows(L, Append(M, row), i + 1)

TriInv(L) == TriInvRows(L, <<>>, 1)

\* np.linalg.pinv of a k x k matrix, k <= 2: the inverse when the matrix
\* is regular, A.T / ||A||_F^2 when its rank is one, zero when it is zero.
Pinv(A) ==
    IF Len(A) = 1
    THEN <<<<IF A[1][1] = 0 THEN 0 ELSE FxDiv(SCALE, A[1][1])>>>>
    ELSE LET det == Round(A[1][1] * A[2][2] - A[1][2] * A[2][1], SCALE)
             fro == Round(A[1][1] * A[1][1] + A[1][2] * A[1][2]
                          + A[2][1] * A[2][1] + A[2][2] * A[2][2], SCALE)
         IN IF det # 0
            THEN <<<<FxDiv(A[2][2], det), FxDiv(0 - A[1][2], det)>>,
                   <<FxDiv(0 - A[2][1], det), FxDiv(A[1][1], det)>>>>
            ELSE IF fro = 0 THEN Zeros(2, 2)
            ELSE <<<<FxDiv(A[1][1], fro), FxDiv(A[2][1], fro)>>,
                   <<FxDiv(A[1][2], fro), FxDiv(A[2][2], fro)>>>>

(***************************************************************************)
(* The functional-data collaborators (skfda.representation, skfda.misc):   *)
(* a data object is [kind, ndim, M, dom].  M is the array of an ndarray    *)
(* (a vector when ndim = 1), data_matrix[..., 0] of an FDataGrid, the      *)
(* coefficients of an FDataBasis; dom is the grid points of an FDataGrid   *)
(* and the basis of an FDataBasis.                                         *)
(***************************************************************************)
NDArray2(M) == [kind |-> "ndarray", ndim |-> 2, M |-> M, dom |-> <<>>]
NDArray1(v) == [kind |-> "ndarray", ndim |-> 1, M |-> v, dom |-> <<>>]
FDataGrid(M, grid_points) ==
    [kind |-> "grid", ndim |-> 2, M |-> M, dom |-> grid_points]
FDataBasis(coefficients, basis) ==
    [kind |-> "basis", ndim |-> 2, M |-> coefficients, dom |-> basis]
\* any object that is neither an ndarray nor an FData
OtherData == [kind |-> "other", ndim |-> 0, M |-> <<>>, dom |-> <<>>]

\* The first n_basis functions of an orthonormal family of functions.
Orthonormal(n_basis) == [family |-> "orthonormal", n_basis |-> n_basis]

\* basis.inner_product_matrix(other): the integrals of the products
inner_product_matrix(basis, other) ==
    V([i \in 1..basis.n_basis |->
        V([j \in 1..other.n_basis |-> IF i = j THEN SCALE ELSE 0])])

\* basis.gram_matrix()
gram_matrix(basis) == inner_product_matrix(basis, basis)

\* FData.mean(): the sample mean, an FData of one sample
FMean(data) == [data EXCEPT !.M = <<ColMeans(data.M)>>]
\* FData - FData of one sample, FData + FData of one sample
FSub(data, mean) == [data EXCEPT !.M = SubRow(data.M, mean.M[1])]
FAdd(data, mean) == [data EXCEPT !.M = AddRow(data.M, mean.M[1])]

\* scipy.integrate.simps(identity, grid): Simpson's weights of a grid of
\* three equally spaced points, h / 3 * (1, 4, 1).
SimpsWeights(grid_points) ==
    LET h == (grid_points[3] - grid_points[1]) \div 2
    IN <<Round(h, 3), Round(4 * h, 3), Round(h, 3)>>

\* compute_penalty_matrix of an L2Regularization of the identity operator
\* with parameter reg over a basis: reg times the Gram matrix.
PenaltyOfBasis(reg, basis) ==
    LET G == gram_matrix(basis)
    IN V([i \in 1..Len(G) |-> V([j \in 1..Len(G) |-> FxMul(reg, G[i][j])])])

\* the same over _GridBasis(grid_points): reg times the quadrature weights
PenaltyOfGrid(reg, grid_points) ==
    LET w == SimpsWeights(grid_points)
    IN Diag(V([i \in 1..Len(w) |-> FxMul(reg, w[i])]))

(***************************************************************************)
(* _FPLSBlock: an object is the function from the names of the attributes  *)
(* that are set on it to their values.                                     *)
(***************************************************************************)
NoObject == <<>>
HasAttr(obj, name) == name \in DOMAIN obj
\* (a variant under which an attribute that is already set keeps its value)
SetAttrs_once(obj, new) == obj @@ new
SetAttrs(obj, new) ==
    [a \in DOMAIN obj \cup DOMAIN new |->
        IF a \in DOMAIN new THEN new[a] ELSE obj[a]]

Raised(kind, site) == [kind |-> kind, site |-> site]
NoError == Raised("none", "none")

\* _initialize_data_multivariate
initialize_data_multivariate(self, data0) ==
    LET data == IF data0.ndim = 1
                THEN V([i \in 1..Len(data0.M) |-> <<data0.M[i]>>])
                ELSE data0.M
        mean == ColMeans(data)
    IN SetAttrs(self,
        [G_data_weights |-> Identity(Cols(data)),
         G_weights |-> Identity(Cols(data)),
         mean |-> mean,
         data_matrix |-> SubRow(data, mean),
         data |-> NDArray2(SubRow(data, mean)),
         regularization_matrix |-> Zeros(Cols(data), Cols(data))])

\* _initialize_data_grid
initialize_data_grid(self, data, integration_weights, regularization) ==
    LET mean == FMean(data)
        centered == FSub(data, mean)
        data_matrix == data.M   \* self.data_matrix = data.data_matrix[..., 0]
        iw == IF integration_weights.some THEN integration_weights.v
              ELSE SimpsWeights(centered.dom)
        regularization_matrix ==
            IF regularization.some
            THEN PenaltyOfGrid(regularization.v, centered.dom)
            ELSE Zeros(Cols(data_matrix), Cols(data_matrix))
    IN SetAttrs(self,
        [mean |-> mean,
         data |-> centered,
         data_matrix |-> data_matrix,
         integration_weights |-> Diag(iw),
         regularization_matrix |-> regularization_matrix,
         G_data_weights |-> Diag(iw),
         G_weights |-> Diag(iw)])

\* _initialize_data_basis
initialize_data_basis(self, data, regularization, weights_basis) ==
    LET mean == FMean(data)
        centered == FSub(data, mean)
        data_matrix == centered.M
        wb == IF weights_basis.some THEN weights_basis.v ELSE data.dom
        regularization_matrix ==
            IF regularization.some
            THEN PenaltyOfBasis(regularization.v, wb)
            ELSE Zeros(Cols(data_matrix), Cols(data_matrix))
    IN SetAttrs(self,
        [mean |-> mean,
         data |-> centered,
         data_matrix |-> data_matrix,
         weights_basis |-> wb,
         regularization_matrix |-> regularization_matrix,
         G_weights |-> gram_matrix(wb),
         G_data_weights |-> inner_product_matrix(centered.dom, wb)])

\* (a variant whose multivariate implementation also takes a regularization)
Dispatch_any_regularization(data, integration_weights, regularization, weights_basis) ==
    IF data.kind = "ndarray" /\ ~integration_weights.some /\ ~weights_basis.some
    THEN "multivariate"
    ELSE IF data.kind = "grid" /\ ~weights_basis.some THEN "grid"
    ELSE IF data.kind = "basis" /\ ~integration_weights.some THEN "basis"
    ELSE "base"

\* The registered implementation the multiple dispatch of _initialize_data
\* selects for the argument types; "base" is the fallback that raises.
Dispatch(data, integration_weights, regularization, weights_basis) ==
    IF data.kind = "ndarray" /\ ~integration_weights.some
       /\ ~regularization.some /\ ~weights_basis.some
    THEN "multivariate"
    ELSE IF data.kind = "grid" /\ ~weights_basis.some THEN "grid"
    ELSE IF data.kind = "basis" /\ ~integration_weights.some THEN "basis"
    ELSE "base"

\* _FPLSBlock.__init__: [err, block]
FPLSBlock(data, n_components, label, integration_weights, regularization, weights_basis) ==
    LET self == [n_components |-> n_components, label |-> label]
        impl == Dispatch(data, integration_weights, regularization,
                         weights_basis)
    IN IF impl = "multivariate"
       THEN [err |-> NoError, block |-> initialize_data_multivariate(self, data)]
       ELSE IF impl = "grid"
       THEN [err |-> NoError,
             block |-> initialize_data_grid(self, data, integration_weights,
                                            regularization)]
       ELSE IF impl = "basis"
       THEN [err |-> NoError,
             block |-> initialize_data_basis(self, data, regularization,
                                             weights_basis)]
       ELSE [err |-> Raised("NotImplementedError", "_initialize_data"),
             block |-> NoObject]

\* G_weights + regularization_matrix under numpy's broadcasting rules:
\* equal shapes add, a 1 x 1 operand is stretched, anything else raises.
Broadcastable(A, B) ==
    \/ Len(A) = Len(B) /\ Cols(A) = Cols(B)
    \/ Len(A) = 1 /\ Cols(A) = 1
    \/ Len(B) = 1 /\ Cols(B) = 1

Stretch(A, r, c) ==
    IF Len(A) = r /\ Cols(A) = c THEN A
    ELSE V([i \in 1..r |-> V([j \in 1..c |-> A[1][1]])])

\* _FPLSBlock.get_penalty_matrix (defined where the sum is)
get_penalty_matrix(block) ==
    LET G == block.G_weights
        R == block.regularization_matrix
        r == IF Len(G) > Len(R) THEN Len(G) ELSE Len(R)
        c == IF Cols(G) > Cols(R) THEN Cols(G) ELSE Cols(R)
    IN MatAdd(Stretch(G, r, c), Stretch(R, r, c))

\* np.linalg.inv(np.linalg.cholesky(...)), given the factorization
InverseOfFactor(ch) ==
    IF ~ch.ok
    THEN [err |-> Raised("LinAlgError", "get_cholesky_inv_penalty_matrix"),
          L_inv |-> <<>>]
    ELSE [err |-> NoError, L_inv |-> TriInv(ch.L)]

\* _FPLSBlock.get_cholesky_inv_penalty_matrix: [err, L_inv]
get_cholesky_inv_penalty_matrix(block) ==
    IF ~Broadcastable(block.G_weights, block.regularization_matrix)
    THEN [err |-> Raised("ValueError", "get_penalty_matrix"), L_inv |-> <<>>]
    ELSE InverseOfFactor(Cholesky(get_penalty_matrix(block)))

(***************************************************************************)
(* _calculate_weights and the NIPALS step                                  *)
(***************************************************************************)

\* INV_EPS = 1e-15 is below the resolution of the representation.
INV_EPS == 0

\* d + INV_EPS, a positive divisor: at least one unit of the representation
Stabilized(d) == IF d + INV_EPS > 0 THEN d + INV_EPS ELSE 1

VecDivEps(v, d) == V([i \in 1..Len(v) |-> FxDiv(v[i], Stabilized(d))])

\* v /= np.sqrt(np.dot(v.T, G @ v)) + INV_EPS
Normalized(v, G) == VecDivEps(v, Sqrt(RawDot(v, MatVec(G, v))))

\* The rest of _calculate_weights, given the whitened blocks X and Y and
\* the state r the power solver returned in.
WeightsOfEigenvector(X, Y, r, G_ww, G_cc, L_X_inv, L_Y_inv) ==
    [err |-> NoError,
     w |-> Normalized(MatVec(Transpose(L_X_inv), r.t), G_ww),
     c |-> Normalized(MatVec(Transpose(L_Y_inv),
                             MatVec(Transpose(Y), MatVec(X, r.t))), G_cc),
     nan |-> r.nan]

\* S @ S.T
Gram(S) == MatMul(S, Transpose(S))

\* S = X.T @ Y; w = _power_solver(S @ S.T, tol, max_iter) and what follows
WeightsOfWhitened(X, Y, G_ww, G_cc, L_X_inv, L_Y_inv, tol, max_iter) ==
    WeightsOfEigenvector(X, Y,
        power_solver(Gram(MatMul(Transpose(X), Y)), tol, max_iter),
        G_ww, G_cc, L_X_inv, L_Y_inv)

\* _calculate_weights: [err, w, c, nan]
calculate_weights(X, Y, G_ww, G_xw, G_cc, G_yc, L_X_inv, L_Y_inv, tol, max_iter) ==
    IF Len(X) # Len(Y)
    THEN \* S = X.T @ Y: the core dimensions of matmul differ
         [err |-> Raised("ValueError", "_calculate_weights"),
          w |-> <<>>, c |-> <<>>, nan |-> FALSE]
    ELSE WeightsOfWhitened(MatMul(MatMul(X, G_xw), Transpose(L_X_inv)),
                           MatMul(MatMul(Y, G_yc), Transpose(L_Y_inv)),
                           G_ww, G_cc, L_X_inv, L_Y_inv, tol, max_iter)

\* (a variant that also takes the long name of the mode)
y_proyection_regression(deflation_mode, t, u) ==
    IF deflation_mode \in {"reg", "regression"} THEN t ELSE u
\* y_proyection = t if self._deflation_mode == "reg" else u
y_proyection(deflation_mode, t, u) == IF deflation_mode = "reg" THEN t ELSE u

\* np.dot(A.T, v) / (np.dot(v, v) + INV_EPS)
Loading(A, v) == VecDivEps(MatVec(Transpose(A), v), Dot(v, v))

\* (a variant that leaves the working Y as it was)
NipalsAppend_without_Y_deflation(n, wc, t, u, p, y_proy, q) ==
    [n EXCEPT !.X = MatSub(n.X, Outer(t, p)),
              !.W = Append(n.W, wc.w),
              !.C = Append(n.C, wc.c),
              !.T = Append(n.T, t),
              !.U = Append(n.U, u),
              !.P = Append(n.P, p),
              !.Q = Append(n.Q, q),
              !.nan = n.nan \/ wc.nan]

\* The deflation and the appends that end a pass of the loop, over the
\* working record n = [X, Y, W, C, T, U, P, Q, L_X_inv, L_Y_inv, nan].
NipalsAppend(n, wc, t, u, p, y_proy, q) ==
    [n EXCEPT !.X = MatSub(n.X, Outer(t, p)),
              !.Y = MatSub(n.Y, Outer(y_proy, q)),
              !.W = Append(n.W, wc.w),
              !.C = Append(n.C, wc.c),
              !.T = Append(n.T, t),
              !.U = Append(n.U, u),
              !.P = Append(n.P, p),
              !.Q = Append(n.Q, q),
              !.nan = n.nan \/ wc.nan]

\* p and q of a pass, given its scores t and u
NipalsLoadings(n, wc, t, u, deflation_mode) ==
    NipalsAppend(n, wc, t, u, Loading(n.X, t),
                 y_proyection(deflation_mode, t, u),
                 Loading(n.Y, y_proyection(deflation_mode, t, u)))

\* t and u of a pass, given the result wc of _calculate_weights
NipalsScores(n, wc, x_block, y_block, deflation_mode) ==
    IF wc.err # NoError THEN [err |-> wc.err, nip |-> n]
    ELSE [err |-> NoError,
          nip |-> NipalsLoadings(n, wc,
                      MatVec(MatMul(n.X, x_block.G_data_weights), wc.w),
                      MatVec(MatMul(n.Y, y_block.G_data_weights), wc.c),
                      deflation_mode)]

\* One pass of the loop of _perform_nipals: [err, nip]
NipalsPass(n, x_block, y_block, tol, max_iter, deflation_mode) ==
    NipalsScores(n,
        calculate_weights(n.X, n.Y,
            x_block.G_weights, x_block.G_data_weights,
            y_block.G_weights, y_block.G_data_weights,
            n.L_X_inv, n.L_Y_inv, tol, max_iter),
        x_block, y_block, deflation_mode)

\* (a variant that stops once the Y residual is exhausted)
NipalsMore_until_exhausted(n, n_components) ==
    /\ Len(n.W) < n_components
    /\ \E i \in 1..Len(n.Y) : \E j \in 1..Cols(n.Y) : n.Y[i][j] # 0
\* for _ in range(self.n_components)
NipalsMore(n, n_components) == Len(n.W) < n_components

\* np.array(columns).T: the list of columns as a matrix, one column each
\* (the empty list gives the empty one-dimensional array)
ColumnsToMatrix(columns) == Transpose(columns)

(***************************************************************************)
(* The power solver, one loop pass at a time                               *)
(***************************************************************************)
PowerEntries == {0 - SCALE, 0, SCALE, 2 * SCALE}
PowerMatrices ==
    {<<<<a, b>>, <<c, d>>>> : a \in PowerEntries, b \in PowerEntries,
                              c \in PowerEntries, d \in PowerEntries}
PowerTols == {0, 1}

PsIdle == [pc |-> "idle"]

PowerCall ==
    /\ ps.pc \in {"idle"}
    /\ \E X \in PowerMatrices, tol \in PowerTols, max_iter \in 0..MaxIterBound :
         ps' = [pc |-> "loop", s |-> PowerInit(X, tol, max_iter)]

PowerIterate ==
    /\ ps.pc = "loop"
    /\ PowerCond(ps.s)
    /\ LET b == PowerBody(ps.s)
       IN ps' = [pc |-> IF b.brk THEN "done" ELSE "loop", s |-> b.state]

PowerExit ==
    /\ ps.pc = "loop"
    /\ ~PowerCond(ps.s)
    /\ ps' = [ps EXCEPT !.pc = "done"]

vars == <<ps, cfg, est, pc, nip, args, last, n_fits, env, peer, md>>
estVars == <<cfg, est, pc, nip, args, last, n_fits, env, peer, md>>

NoCall == [op |-> "none", err |-> NoError, ret |-> <<>>]

InitPower ==
    /\ ps = PsIdle
    /\ cfg = <<>> /\ est = NoObject /\ pc = "idle" /\ nip = <<>>
    /\ args = <<>> /\ last = NoCall /\ n_fits = 0 /\ env = <<>>
    /\ peer = <<>> /\ md = <<>>
NextPower ==
    \/ PowerCall /\ UNCHANGED estVars
    \/ PowerIterate /\ UNCHANGED estVars
    \/ PowerExit /\ UNCHANGED estVars
SpecPower == InitPower /\ [][NextPower]_vars

(***************************************************************************)
(* The FPLS estimator                                                      *)
(***************************************************************************)

\* Largest number of fit calls on the estimator.
MaxFits == 2

\* The attributes fit assigns whose names end in an underscore.
TrailingUnderscore ==
    {"x_weights_", "y_weights_", "x_scores_", "y_scores_",
     "x_loadings_matrix_", "y_loadings_matrix_",
     "x_rotations_matrix_", "y_rotation_matrix_",
     "x_rotations_", "y_rotations_", "x_loadings_", "y_loadings_"}

\* sklearn's check_is_fitted(self): some attribute of the instance has a
\* name that ends in "_" (the constructor arguments and the blocks,
\* _x_block and _y_block, do not).
IsFitted(self) == \E a \in DOMAIN self : a \in TrailingUnderscore

\* FPLS.__init__ stores its arguments.
Config(n_components, regularization_X, regularization_Y, component_basis_X, component_basis_Y, tol, max_iter, deflation_mode, integration_weights_X, integration_weights_Y) ==
    [n_components |-> n_components,
     regularization_X |-> regularization_X,
     regularization_Y |-> regularization_Y,
     component_basis_X |-> component_basis_X,
     component_basis_Y |-> component_basis_Y,
     tol |-> tol, max_iter |-> max_iter,
     deflation_mode |-> deflation_mode,
     integration_weights_X |-> integration_weights_X,
     integration_weights_Y |-> integration_weights_Y]

\* tol and max_iter of the estimators: tol in units of the representation.
FitTol == 3
FitMaxIter == 30

RegularizationChoices == {None, Some(SCALE)}
BasisChoices == {None, Some(Orthonormal(2)), Some(Orthonormal(3))}
WeightChoices == {None, Some(<<25, 50, 25>>)}

\* The numbers of components asked for: up to the number of features of
\* the X blocks below, the most their rank supports.
ComponentCounts == 0..2

\* The constructor configurations: every number of components and
\* deflation mode with the other arguments at their defaults, and every
\* choice of the block arguments of one block.
Configs ==
    {Config(n, None, None, None, None, FitTol, FitMaxIter, m, None, None) :
        n \in ComponentCounts,
        m \in {"can", "reg", "canonical", "regression"}}
    \cup {Config(2, r, None, b, None, FitTol, FitMaxIter, "can", w, None) :
        r \in RegularizationChoices, b \in BasisChoices, w \in WeightChoices}
    \cup {Config(1, None, r, None, b, FitTol, FitMaxIter, "can", None, w) :
        r \in RegularizationChoices, b \in BasisChoices, w \in WeightChoices}

\* The configurations of the estimators that are fitted more than once.
RefitConfigs ==
    {Config(n, None, None, None, None, FitTol, FitMaxIter, "can", None, None) :
        n \in ComponentCounts}
    \cup {Config(1, r, None, Some(Orthonormal(3)), None, FitTol, FitMaxIter, "reg",
                 None, None) : r \in RegularizationChoices}

GridPoints == <<0, 50, 100>>
X_multivariate == NDArray2(<<<<0, 100>>, <<100, 0>>, <<200, 200>>>>)
X_multivariate2 == NDArray2(<<<<0, 100>>, <<200, 0>>>>)
X_grid == FDataGrid(<<<<0, 100, 0>>, <<100, 100, 200>>, <<200, 0, 100>>>>,
                    GridPoints)
X_basis == FDataBasis(<<<<100, 0>>, <<0, 100>>, <<200, 200>>>>, Orthonormal(2))
Y_vector == NDArray1(<<0, 100, 300>>)
Y_vector2 == NDArray1(<<0, 200>>)
Y_grid == FDataGrid(<<<<100, 0, 0>>, <<0, 200, 100>>, <<200, 100, 200>>>>,
                    GridPoints)
Y_grid2 == FDataGrid(<<<<100, 0, 0>>, <<0, 200, 100>>>>, GridPoints)
Y_basis == FDataBasis(<<<<0, 100>>, <<100, 100>>, <<200, 0>>>>, Orthonormal(2))
Y_basis2 == FDataBasis(<<<<0, 100>>, <<200, 0>>>>, Orthonormal(2))

Call(X, y) == [X |-> X, y |-> y]

\* The arguments fit is called with (tuples: the kinds do not compare):
\* every kind of X block with every kind of Y block, of three samples
\* and of two.
FitX == <<X_multivariate, X_multivariate2, X_grid, X_basis, OtherData>>
FitY == <<Y_vector, Y_vector2, Y_grid, Y_grid2, Y_basis, Y_basis2>>
AllCalls ==
    V([k \in 1..(Len(FitX) * Len(FitY)) |->
        Call(FitX[((k - 1) \div Len(FitY)) + 1],
             FitY[((k - 1) % Len(FitY)) + 1])])

\* The arguments of the estimators that are fitted more than once.
RefitCalls ==
    <<Call(X_multivariate, Y_vector), Call(X_multivariate, Y_vector2),
      Call(X_basis, Y_grid), Call(X_grid, Y_basis), Call(OtherData, Y_vector)>>

n_samples(data) == Len(data.M)

\* (a variant whose multivariate block centers the caller's array in place,
\* data -= mean)
FitInitX_in_place ==
    /\ pc = "idle"
    /\ n_fits < env.max_fits
    /\ \E i \in DOMAIN env.calls :
         \E r \in {FPLSBlock(env.calls[i].X, cfg.n_components, "X",
                               cfg.integration_weights_X,
                               cfg.regularization_X, cfg.component_basis_X)} :
            /\ n_fits' = n_fits + 1
            /\ UNCHANGED nip
            /\ IF r.err # NoError
               THEN /\ last' = [op |-> "fit", err |-> r.err, ret |-> <<>>]
                    /\ UNCHANGED <<est, pc, args, env>>
               ELSE /\ est' = SetAttrs(est, "_x_block" :> r.block)
                    /\ pc' = "init_y"
                    /\ args' = env.calls[i]
                    /\ last' = NoCall
                    /\ env' = IF env.calls[i].X.kind = "ndarray"
                              THEN [env EXCEPT !.calls[i].X.M =
                                       r.block.data_matrix]
                              ELSE env
    /\ UNCHANGED <<cfg, ps>>

\* self._x_block = _FPLSBlock(data=X, ...), the first statement of fit
FitInitX ==
    /\ pc = "idle"
    /\ n_fits < env.max_fits
    /\ \E i \in DOMAIN env.calls :
         \E r \in {FPLSBlock(env.calls[i].X, cfg.n_components, "X",
                               cfg.integration_weights_X,
                               cfg.regularization_X, cfg.component_basis_X)} :
            /\ n_fits' = n_fits + 1
            /\ UNCHANGED nip
            /\ IF r.err # NoError
               THEN /\ last' = [op |-> "fit", err |-> r.err, ret |-> <<>>]
                    /\ UNCHANGED <<est, pc, args>>
               ELSE /\ est' = SetAttrs(est, "_x_block" :> r.block)
                    /\ pc' = "init_y"
                    /\ args' = env.calls[i]
                    /\ last' = NoCall
    /\ UNCHANGED <<cfg, ps, env>>

\* self._y_block = _FPLSBlock(data=Y, ...)
FitInitY ==
    /\ pc = "init_y"
    /\ \E r \in {FPLSBlock(args.y, cfg.n_components, "Y",
                            cfg.integration_weights_Y, cfg.regularization_Y,
                            cfg.component_basis_Y)} :
          IF r.err # NoError
          THEN /\ last' = [op |-> "fit", err |-> r.err, ret |-> <<>>]
               /\ pc' = "idle"
               /\ args' = <<>>
               /\ UNCHANGED est
          ELSE /\ est' = SetAttrs(est, "_y_block" :> r.block)
               /\ pc' = "nipals_pre"
               /\ UNCHANGED <<last, args>>
    /\ UNCHANGED <<cfg, ps, nip, n_fits, env>>

\* A - np.mean(A, axis=0)
Centered(A) == SubRow(A, ColMeans(A))

\* _perform_nipals up to its loop: the working copies, centered again, and
\* the two inverse Cholesky factors
NipalsPre ==
    /\ pc = "nipals_pre"
    /\ \E lx \in {get_cholesky_inv_penalty_matrix(est["_x_block"])},
          ly \in {get_cholesky_inv_penalty_matrix(est["_y_block"])} :
          IF lx.err # NoError \/ ly.err # NoError
          THEN /\ last' = [op |-> "fit",
                           err |-> IF lx.err # NoError THEN lx.err ELSE ly.err,
                           ret |-> <<>>]
               /\ pc' = "idle"
               /\ args' = <<>>
               /\ UNCHANGED nip
          ELSE /\ nip' = [X |-> Centered(est["_x_block"].data_matrix),
                          Y |-> Centered(est["_y_block"].data_matrix),
                          W |-> <<>>, C |-> <<>>,
                          T |-> <<>>, U |-> <<>>, P |-> <<>>, Q |-> <<>>,
                          L_X_inv |-> lx.L_inv, L_Y_inv |-> ly.L_inv,
                          nan |-> FALSE]
               /\ pc' = "nipals"
               /\ UNCHANGED <<last, args>>
    /\ UNCHANGED <<cfg, ps, est, n_fits, env>>

\* one pass of the loop of _perform_nipals
NipalsStep ==
    /\ pc = "nipals"
    /\ NipalsMore(nip, cfg.n_components)
    /\ \E r \in {NipalsPass(nip, est["_x_block"], est["_y_block"],
                             cfg.tol, cfg.max_iter, cfg.deflation_mode)} :
          IF r.err # NoError
          THEN /\ last' = [op |-> "fit", err |-> r.err, ret |-> <<>>]
               /\ pc' = "idle"
               /\ nip' = <<>>
               /\ args' = <<>>
          ELSE /\ nip' = r.nip
               /\ UNCHANGED <<last, pc, args>>
    /\ UNCHANGED <<cfg, ps, est, n_fits, env>>

\* the end of _perform_nipals: the six result arrays
NipalsResults(n) ==
    ("x_weights_" :> ColumnsToMatrix(n.W))
    @@ ("y_weights_" :> ColumnsToMatrix(n.C))
    @@ ("x_scores_" :> ColumnsToMatrix(n.T))
    @@ ("y_scores_" :> ColumnsToMatrix(n.U))
    @@ ("x_loadings_matrix_" :> ColumnsToMatrix(n.P))
    @@ ("y_loadings_matrix_" :> ColumnsToMatrix(n.Q))

NipalsFinish ==
    /\ pc = "nipals"
    /\ ~NipalsMore(nip, cfg.n_components)
    /\ est' = SetAttrs(est, NipalsResults(nip))
    /\ pc' = "rotations_x"
    /\ UNCHANGED <<cfg, ps, nip, args, last, n_fits, env>>

\* weights @ np.linalg.pinv(loadings.T @ G_data_weights @ weights):
\* [err, rotations].  The empty arrays of a fit without components are
\* one-dimensional, their product with G_data_weights raises; pinv raises
\* when the singular value decomposition of NaN does not converge.
Rotations(weights, loadings, G_data_weights, nan) ==
    IF Len(loadings) = 0
    THEN [err |-> Raised("ValueError", "fit"), rotations |-> <<>>]
    ELSE IF nan
    THEN [err |-> Raised("LinAlgError", "fit"), rotations |-> <<>>]
    ELSE [err |-> NoError,
          rotations |-> MatMul(weights,
              Pinv(MatMul(MatMul(Transpose(loadings), G_data_weights),
                          weights)))]

\* The name fit gives the rotations of the Y block on the estimator.
YRotationsMatrixName == "y_rotation_matrix_"

FitRotationsX ==
    /\ pc = "rotations_x"
    /\ \E r \in {Rotations(est["x_weights_"], est["x_loadings_matrix_"],
                            est["_x_block"].G_data_weights, nip.nan)} :
          IF r.err # NoError
          THEN /\ last' = [op |-> "fit", err |-> r.err, ret |-> <<>>]
               /\ pc' = "idle"
               /\ nip' = <<>>
               /\ args' = <<>>
               /\ UNCHANGED est
          ELSE /\ est' = SetAttrs(est, "x_rotations_matrix_" :> r.rotations)
               /\ pc' = "rotations_y"
               /\ UNCHANGED <<last, nip, args>>
    /\ UNCHANGED <<cfg, ps, n_fits, env>>

FitRotationsY ==
    /\ pc = "rotations_y"
    /\ \E r \in {Rotations(est["y_weights_"], est["y_loadings_matrix_"],
                            est["_y_block"].G_data_weights, nip.nan)} :
          IF r.err # NoError
          THEN /\ last' = [op |-> "fit", err |-> r.err, ret |-> <<>>]
               /\ pc' = "idle"
               /\ nip' = <<>>
               /\ args' = <<>>
               /\ UNCHANGED est
          ELSE /\ est' = SetAttrs(est, YRotationsMatrixName :> r.rotations)
               /\ pc' = "attach"
               /\ UNCHANGED <<last, nip, args>>
    /\ UNCHANGED <<cfg, ps, n_fits, env>>

\* FDataBasis.copy(coefficients=...): the constructor of FDataBasis rejects
\* coefficients whose number of columns is not the size of the basis.
FDataBasisCopy(data, coefficients) ==
    IF Cols(coefficients) # data.dom.n_basis
    THEN [err |-> Raised("ValueError", "_to_block_type"), v |-> <<>>]
    ELSE [err |-> NoError, v |-> FDataBasis(coefficients, data.dom)]

\* _FPLSBlock._to_block_type: [err, v]
to_block_type(block, nipals_matrix) ==
    IF block.data.kind = "grid"
    THEN [err |-> NoError,
          v |-> FDataGrid(Transpose(nipals_matrix), block.data.dom)]
    ELSE IF block.data.kind = "basis"
    THEN FDataBasisCopy(block.data, Transpose(nipals_matrix))
    ELSE [err |-> NoError, v |-> NDArray2(Transpose(nipals_matrix))]

\* _FPLSBlock.set_nipals_results: [err, block]; the block keeps what was
\* assigned before a statement raised.
set_nipals_results(block, rotations, loadings) ==
    LET b1 == SetAttrs(block, [rotations_matrix |-> rotations,
                               loadings_matrix |-> loadings])
        r == to_block_type(b1, rotations)
        l == to_block_type(b1, loadings)
    IN IF r.err # NoError THEN [err |-> r.err, block |-> b1]
       ELSE IF l.err # NoError
       THEN [err |-> l.err, block |-> SetAttrs(b1, [rotations |-> r.v])]
       ELSE [err |-> NoError,
             block |-> SetAttrs(b1, [rotations |-> r.v, loadings |-> l.v])]

\* the rest of fit: both set_nipals_results calls and the four attributes
\* read back from the blocks
FitAttach ==
    /\ pc = "attach"
    /\ \E x \in {set_nipals_results(est["_x_block"],
                                     est["x_rotations_matrix_"],
                                     est["x_loadings_matrix_"])},
          y \in {set_nipals_results(est["_y_block"],
                                     est[YRotationsMatrixName],
                                     est["y_loadings_matrix_"])} :
          IF x.err # NoError
          THEN /\ est' = SetAttrs(est, "_x_block" :> x.block)
               /\ last' = [op |-> "fit", err |-> x.err, ret |-> <<>>]
          ELSE IF y.err # NoError
          THEN /\ est' = SetAttrs(est, ("_x_block" :> x.block)
                                       @@ ("_y_block" :> y.block))
               /\ last' = [op |-> "fit", err |-> y.err, ret |-> <<>>]
          ELSE /\ est' = SetAttrs(est,
                       ("_x_block" :> x.block) @@ ("_y_block" :> y.block)
                       @@ ("x_rotations_" :> x.block.rotations)
                       @@ ("y_rotations_" :> y.block.rotations)
                       @@ ("x_loadings_" :> x.block.loadings)
                       @@ ("y_loadings_" :> y.block.loadings))
               /\ last' = [op |-> "fit", err |-> NoError, ret |-> "self"]
    /\ pc' = "idle"
    /\ nip' = <<>>
    /\ args' = <<>>
    /\ UNCHANGED <<cfg, ps, n_fits, env>>

(***************************************************************************)
(* transform and inverse_transform                                         *)
(***************************************************************************)
AttributeError == Raised("AttributeError", "block")
NotFittedError == Raised("NotFittedError", "check_is_fitted")

n_features(data) == IF data.ndim = 1 THEN 1 ELSE Cols(data.M)

\* _FPLSBlock.transform: [err, v]
block_transform(block, data) ==
    IF ~HasAttr(block, "rotations_matrix")
    THEN [err |-> AttributeError, v |-> <<>>]
    ELSE IF data.kind \in {"grid", "basis"}
    THEN [err |-> NoError,
          v |-> MatMul(MatMul(FSub(data, block.mean).M, block.G_data_weights),
                       block.rotations_matrix)]
    ELSE LET data_array == IF data.ndim = 1
                           THEN V([i \in 1..Len(data.M) |-> <<data.M[i]>>])
                           ELSE data.M
         IN [err |-> NoError,
             v |-> MatMul(SubRow(data_array, block.mean),
                          block.rotations_matrix)]

\* _FPLSBlock.inverse_transform: [err, v]
block_inverse_transform(block, components) ==
    IF ~HasAttr(block, "loadings_matrix")
    THEN [err |-> AttributeError, v |-> <<>>]
    ELSE LET rec == MatMul(components, Transpose(block.loadings_matrix))
         IN IF block.data.kind \in {"grid", "basis"}
            THEN [err |-> NoError,
                  v |-> FAdd([block.data EXCEPT !.M = rec], block.mean)]
            ELSE [err |-> NoError, v |-> NDArray2(AddRow(rec, block.mean))]

\* The data a block can be handed: of the kind and the number of features
\* it was built from.
Fits(block, data) ==
    HasAttr(block, "rotations_matrix") =>
        /\ data.kind = block.data.kind
        /\ n_features(data) = Cols(block.data_matrix)

\* Component matrices of one sample for a model of k components.
Components(k) == {<<V([i \in 1..k |-> i * SCALE])>>}

ComponentsOptional(components) == {None} \cup {Some(c) : c \in components}

TransformX == <<X_multivariate, X_multivariate2, X_grid, X_basis>>
TransformY == <<Y_vector, Y_grid, Y_basis>>
TransformYOptional == <<None>> \o [j \in DOMAIN env.Y |-> Some(env.Y[j])]

Finished(op, r) == [op |-> op, err |-> r.err, ret |-> r.v]
\* (a variant without the check: the missing block raises)
NotFitted_from_block(op) == [op |-> op, err |-> AttributeError, ret |-> <<>>]
\* check_is_fitted(self) raising, the first statement of each of the six
NotFitted(op) == [op |-> op, err |-> NotFittedError, ret |-> <<>>]

\* a pair of block results as one result
Both(x, y) ==
    IF x.err # NoError THEN x
    ELSE IF y.err # NoError THEN y
    ELSE [err |-> NoError, v |-> <<x.v, y.v>>]

\* FPLS.transform(X, y)
Transform ==
    /\ pc = "idle"
    /\ \E i \in DOMAIN env.X, j \in DOMAIN TransformYOptional :
         LET X == env.X[i]
             y == TransformYOptional[j]
         IN
         IF ~IsFitted(est) THEN last' = NotFitted("transform")
         ELSE /\ Fits(est["_x_block"], X)
              /\ y.some => Fits(est["_y_block"], y.v)
              /\ \E xs \in {block_transform(est["_x_block"], X)} :
                    last' = Finished("transform",
                        IF y.some /\ xs.err = NoError
                        THEN Both(xs, block_transform(est["_y_block"], y.v))
                        ELSE xs)
    /\ UNCHANGED <<cfg, ps, est, pc, nip, args, n_fits, env>>

\* (a variant that centers an array argument in place, data_array -= mean)
Transform_x_in_place ==
    /\ pc = "idle"
    /\ \E i \in DOMAIN env.X :
         LET X == env.X[i] IN
         IF ~IsFitted(est)
         THEN last' = NotFitted("transform_x") /\ UNCHANGED env
         ELSE /\ Fits(est["_x_block"], X)
              /\ last' = Finished("transform_x",
                                  block_transform(est["_x_block"], X))
              /\ env' = IF X.kind = "ndarray" /\ last'.err = NoError
                        THEN [env EXCEPT !.X[i].M =
                                 SubRow(X.M, est["_x_block"].mean)]
                        ELSE env
    /\ UNCHANGED <<cfg, ps, est, pc, nip, args, n_fits>>

\* FPLS.transform_x(X)
Transform_x ==
    /\ pc = "idle"
    /\ \E i \in DOMAIN env.X :
         LET X == env.X[i] IN
         IF ~IsFitted(est) THEN last' = NotFitted("transform_x")
         ELSE /\ Fits(est["_x_block"], X)
              /\ last' = Finished("transform_x",
                                  block_transform(est["_x_block"], X))
    /\ UNCHANGED <<cfg, ps, est, pc, nip, args, n_fits, env>>

\* FPLS.transform_y(Y)
Transform_y ==
    /\ pc = "idle"
    /\ \E j \in DOMAIN env.Y :
         LET Y == env.Y[j] IN
         IF ~IsFitted(est) THEN last' = NotFitted("transform_y")
         ELSE /\ Fits(est["_y_block"], Y)
              /\ last' = Finished("transform_y",
                                  block_transform(est["_y_block"], Y))
    /\ UNCHANGED <<cfg, ps, est, pc, nip, args, n_fits, env>>

\* FPLS.inverse_transform(X, Y)
InverseTransform ==
    /\ pc = "idle"
    /\ \E X \in env.components, Y \in ComponentsOptional(env.components) :
         IF ~IsFitted(est) THEN last' = NotFitted("inverse_transform")
         ELSE \E xr \in {block_inverse_transform(est["_x_block"], X)} :
                 last' = Finished("inverse_transform",
                     IF Y.some /\ xr.err = NoError
                     THEN Both(xr, block_inverse_transform(est["_y_block"],
                                                           Y.v))
                     ELSE xr)
    /\ UNCHANGED <<cfg, ps, est, pc, nip, args, n_fits, env>>

\* FPLS.inverse_transform_x(X)
InverseTransform_x ==
    /\ pc = "idle"
    /\ \E X \in env.components :
         IF ~IsFitted(est) THEN last' = NotFitted("inverse_transform_x")
         ELSE last' = Finished("inverse_transform_x",
                               block_inverse_transform(est["_x_block"], X))
    /\ UNCHANGED <<cfg, ps, est, pc, nip, args, n_fits, env>>

\* FPLS.inverse_transform_y(Y)
InverseTransform_y ==
    /\ pc = "idle"
    /\ \E Y \in env.components :
         IF ~IsFitted(est) THEN last' = NotFitted("inverse_transform_y")
         ELSE last' = Finished("inverse_transform_y",
                               block_inverse_transform(est["_y_block"], Y))
    /\ UNCHANGED <<cfg, ps, est, pc, nip, args, n_fits, env>>

\* The arrays the caller holds: the arguments of the fit calls and of the
\* calls to the six transform methods.
Caller(calls, max_fits) ==
    [calls |-> calls, max_fits |-> max_fits,
     X |-> TransformX, Y |-> TransformY,
     components |-> Components(cfg.n_components)]

\* No second estimator, no display.
NoPeer == <<>>

\* FPLS(...): the estimator right after construction
Constructed(configs) ==
    /\ cfg \in configs
    /\ est = NoObject
    /\ pc = "idle"
    /\ nip = <<>>
    /\ args = <<>>
    /\ last = NoCall
    /\ n_fits = 0
    /\ ps = PsIdle

\* An estimator that is fitted up to MaxFits times.
Init ==
    /\ Constructed(RefitConfigs)
    /\ env = Caller(RefitCalls, MaxFits)
    /\ peer = NoPeer
    /\ md = NoObject

\* An estimator of any configuration that is fitted once, on any data.
InitOneFit ==
    /\ Constructed(Configs)
    /\ env = Caller(AllCalls, 1)
    /\ peer = NoPeer
    /\ md = NoObject

Next ==
    \/ FitInitX /\ UNCHANGED <<peer, md>>
    \/ FitInitY /\ UNCHANGED <<peer, md>>
    \/ NipalsPre /\ UNCHANGED <<peer, md>>
    \/ NipalsStep /\ UNCHANGED <<peer, md>>
    \/ NipalsFinish /\ UNCHANGED <<peer, md>>
    \/ FitRotationsX /\ UNCHANGED <<peer, md>>
    \/ FitRotationsY /\ UNCHANGED <<peer, md>>
    \/ FitAttach /\ UNCHANGED <<peer, md>>
    \/ Transform /\ UNCHANGED <<peer, md>>
    \/ Transform_x /\ UNCHANGED <<peer, md>>
    \/ Transform_y /\ UNCHANGED <<peer, md>>
    \/ InverseTransform /\ UNCHANGED <<peer, md>>
    \/ InverseTransform_x /\ UNCHANGED <<peer, md>>
    \/ InverseTransform_y /\ UNCHANGED <<peer, md>>

Spec == Init /\ [][Next]_vars
SpecOneFit == InitOneFit /\ [][Next]_vars

(***************************************************************************)
(* Two estimators, their fit calls interleaved                             *)
(***************************************************************************)

\* The estimator that takes the steps, as a record.
Running(id) ==
    [id |-> id, cfg |-> cfg, est |-> est, pc |-> pc, nip |-> nip,
     args |-> args, last |-> last, n_fits |-> n_fits]

\* The scheduler hands the processor to the other estimator, between any
\* two statements of fit.
Switch ==
    /\ peer' = Running(IF peer.id = "A" THEN "B" ELSE "A")
    /\ cfg' = peer.cfg
    /\ est' = peer.est
    /\ pc' = peer.pc
    /\ nip' = peer.nip
    /\ args' = peer.args
    /\ last' = peer.last
    /\ n_fits' = peer.n_fits
    /\ UNCHANGED <<ps, env, md>>

\* Two estimators right after construction, each fitted once, on
\* arguments taken from the same objects of the caller.
InitTwo ==
    /\ Constructed(RefitConfigs)
    /\ env = Caller(RefitCalls, 1)
    /\ \E c \in RefitConfigs :
          peer = [id |-> "B", cfg |-> c, est |-> NoObject, pc |-> "idle",
                  nip |-> <<>>, args |-> <<>>, last |-> NoCall, n_fits |-> 0]
    /\ md = NoObject

NextTwo ==
    \/ FitInitX /\ UNCHANGED <<peer, md>>
    \/ FitInitY /\ UNCHANGED <<peer, md>>
    \/ NipalsPre /\ UNCHANGED <<peer, md>>
    \/ NipalsStep /\ UNCHANGED <<peer, md>>
    \/ NipalsFinish /\ UNCHANGED <<peer, md>>
    \/ FitRotationsX /\ UNCHANGED <<peer, md>>
    \/ FitRotationsY /\ UNCHANGED <<peer, md>>
    \/ FitAttach /\ UNCHANGED <<peer, md>>
    \/ Switch

SpecTwo == InitTwo /\ [][NextTwo]_vars


(***************************************************************************)
(* Claims about the estimator                                              *)
(***************************************************************************)
Last(seq) == seq[Len(seq)]

BlockNames == {"_x_block", "_y_block"}

TransformOps ==
    {"transform", "transform_x", "transform_y",
     "inverse_transform", "inverse_transform_x", "inverse_transform_y"}

\* The last call was a fit that raised.
FailedFit == pc = "idle" /\ last.op = "fit" /\ last.err # NoError

\* C1: when fit raises, at whichever step and whether or not the estimator
\* was fitted before, no fitted attribute is left set on the estimator and
\* the next call to transform raises NotFittedError.
C1_FailedFitLeavesNoFittedState ==
    /\ [](FailedFit => ~IsFitted(est))
    /\ [][(FailedFit /\ last'.op = "transform")
            => last'.err = NotFittedError]_vars

\* C2: while fit has never been called, each of the six transform methods
\* raises NotFittedError, whatever the configuration, and leaves the
\* estimator without any block.
C2_UnfittedRaisesNotFitted ==
    [][(n_fits = 0 /\ n_fits' = 0)
        => /\ last'.op \in TransformOps
           /\ last'.err = NotFittedError
           /\ last'.ret = <<>>
           /\ est' = NoObject]_vars

C2_Witness ==
    /\ n_fits = 0
    /\ last.op = "inverse_transform_y"
    /\ last.err = NotFittedError
    /\ cfg.regularization_Y.some
    /\ cfg.component_basis_Y.some

\* The six lists of columns of the NIPALS loop and the attributes they end in.
NipalsLists ==
    <<<<"W", "x_weights_">>, <<"C", "y_weights_">>, <<"T", "x_scores_">>,
      <<"U", "y_scores_">>, <<"P", "x_loadings_matrix_">>,
      <<"Q", "y_loadings_matrix_">>>>

\* matrix has n columns, column k being columns[k]
HoldsColumns(matrix, columns, n) ==
    /\ Len(columns) = n
    /\ Cols(matrix) = n
    /\ \A k \in 1..n : Col(matrix, k) = columns[k]

\* C3: the NIPALS loop makes exactly n_components passes, each appending
\* one vector to each of the six lists, and each of the six result matrices
\* has n_components columns, column k being the vector of pass k.
C3_ExactlyNComponentsInOrder ==
    /\ [][(pc = "nipals" /\ pc' = "nipals")
            => \A i \in DOMAIN NipalsLists :
                 /\ Len(nip'[NipalsLists[i][1]]) = Len(nip[NipalsLists[i][1]]) + 1
                 /\ SubSeq(nip'[NipalsLists[i][1]], 1,
                           Len(nip[NipalsLists[i][1]])) = nip[NipalsLists[i][1]]
                 /\ Len(nip'[NipalsLists[i][1]]) <= cfg.n_components]_vars
    /\ [](pc = "rotations_x"
            => \A i \in DOMAIN NipalsLists :
                 HoldsColumns(est[NipalsLists[i][2]], nip[NipalsLists[i][1]],
                              cfg.n_components))

\* two passes were made, the second on an exhausted Y residual
C3_Witness ==
    /\ pc = "rotations_x"
    /\ cfg.n_components = 2
    /\ Cols(est["y_loadings_matrix_"]) = 2
    /\ \A j \in 1..Len(nip.Q[2]) : nip.Q[2][j] = 0
    /\ \E j \in 1..Len(nip.Q[1]) : nip.Q[1][j] # 0

\* A pass of the NIPALS loop was made.
NipalsStepped ==
    pc = "nipals" /\ pc' = "nipals" /\ Len(nip'.Q) = Len(nip.Q) + 1

\* The Y loading and the Y deflation of that pass project on y_proy.
ProjectsOn(y_proy) ==
    /\ Last(nip'.Q) = Loading(nip.Y, y_proy)
    /\ nip'.Y = MatSub(nip.Y, Outer(y_proy, Last(nip'.Q)))

\* C4 (as stated): with deflation mode "regression" every pass projects on
\* the X score t, with "canonical" on the Y score u.
C4_RegressionProjectsOnT ==
    [][NipalsStepped
        => /\ cfg.deflation_mode = "regression" => ProjectsOn(Last(nip'.T))
           /\ cfg.deflation_mode = "canonical" => ProjectsOn(Last(nip'.U))]_vars

\* C4 (amended): every pass projects on the X score t when _deflation_mode is
\* "reg" and on the Y score u for any other value, "can" (the default),
\* "canonical" and "regression" included; the same for every pass of a fit.
C4_RegProjectsOnT ==
    [][NipalsStepped
        => IF cfg.deflation_mode = "reg"
           THEN ProjectsOn(Last(nip'.T))
           ELSE ProjectsOn(Last(nip'.U))]_vars

\* two passes in mode "reg", the scores of the blocks differing in both
C4_Witness ==
    /\ pc = "nipals"
    /\ cfg.deflation_mode = "reg"
    /\ Len(nip.Q) = 2
    /\ nip.T[1] # nip.U[1]
    /\ nip.T[2] # nip.U[2]
    /\ nip.Q[1] # Loading(Centered(est["_y_block"].data_matrix), nip.U[1])

\* C5: a fit on blocks of different numbers of samples is rejected with an
\* error, whatever the kinds of the blocks, and leaves no fitted state.
C5_SampleMismatchRejected ==
    [][(pc # "idle" /\ pc' = "idle"
        /\ n_samples(args.X) # n_samples(args.y))
        => /\ last'.err # NoError
           /\ ~IsFitted(est')]_vars

\* the column means of M vanish, up to the rounding of the mean
ZeroColumnMeans(M) ==
    \A j \in 1..Cols(M) : Abs(SumSeq(Col(M, j))) <= Len(M)

\* C9: right after a block of any of the three kinds is constructed, its
\* data_matrix is the mean-centered data: every column has zero mean.
C9_DataMatrixCentered ==
    (pc \in {"init_y", "nipals_pre"})
        => \A a \in BlockNames \cap DOMAIN est :
             ZeroColumnMeans(est[a].data_matrix)

\* C10: G_weights and regularization_matrix of every constructed block are
\* square and of the same size.
C10_PenaltySummandsSameSize ==
    \A a \in BlockNames \cap DOMAIN est :
        /\ IsSquare(est[a].G_weights)
        /\ IsSquare(est[a].regularization_matrix)
        /\ Len(est[a].G_weights) = Len(est[a].regularization_matrix)

(***************************************************************************)
(* Claims about _power_solver, under SpecPower                              *)
(***************************************************************************)
PowerReturned == ps.pc = "done"

\* C6: _power_solver performs at most max_iter iteration steps (one step =
\* multiply by the matrix and normalize) before it returns.
C6_AtMostMaxIterSteps ==
    ps.pc \in {"loop", "done"} => ps.s.iter_count <= ps.s.max_iter

IsDiagonal(X) ==
    \A i \in 1..Len(X) : \A j \in 1..Len(X) : i # j => X[i][j] = 0

\* distinct, positive eigenvalues at least one unit apart
WellSeparated(X) ==
    /\ \A i \in 1..Len(X) : X[i][i] > 0
    /\ \A i \in 1..Len(X) : \A j \in 1..Len(X) :
         i # j => Abs(X[i][i] - X[j][j]) >= SCALE

ArgMaxDiag(X) ==
    CHOOSE i \in 1..Len(X) : \A j \in 1..Len(X) : X[j][j] <= X[i][i]

UnitVector(n, k) == [i \in 1..n |-> IF i = k THEN SCALE ELSE 0]

CloseVec(u, v, eps) == \A i \in 1..Len(u) : Abs(u[i] - v[i]) <= eps

UpToSign(u, v, eps) ==
    CloseVec(u, v, eps) \/ CloseVec(u, [i \in 1..Len(v) |-> 0 - v[i]], eps)

\* C7: for a diagonal matrix with distinct, well-separated eigenvalues,
\* wherever the largest sits on the diagonal, _power_solver returns the
\* eigenvector of the largest eigenvalue, up to sign and tolerance.
C7_DiagonalDominantEigenvector ==
    (PowerReturned /\ IsDiagonal(ps.s.X) /\ WellSeparated(ps.s.X)
                   /\ ~PowerCond(ps.s))
        => /\ ~ps.s.nan
           /\ UpToSign(ps.s.t,
                       UnitVector(Len(ps.s.X), ArgMaxDiag(ps.s.X)), 2)

IsSymmetric(X) ==
    \A i \in 1..Len(X) : \A j \in 1..Len(X) : X[i][j] = X[j][i]

\* C8: the vector _power_solver returns has unit Euclidean norm for every
\* symmetric input matrix, a zero or tiny first column included.
C8_ReturnsUnitVector ==
    (PowerReturned /\ IsSymmetric(ps.s.X))
        => /\ ~ps.s.nan
           /\ Abs(Norm(ps.s.t) - SCALE) <= 2

(***************************************************************************)
(* Claims about the fitted state                                           *)
(***************************************************************************)

\* The fitted attributes the documentation of the class lists.
DocumentedAttributes ==
    {"x_weights_", "y_weights_", "x_scores_", "y_scores_",
     "x_rotations_matrix_", "y_rotations_matrix_",
     "x_loadings_matrix_", "y_loadings_matrix_",
     "x_rotations_", "y_rotations_", "x_loadings_", "y_loadings_"}

\* The last call was a fit that returned.
SuccessfulFit == pc = "idle" /\ last.op = "fit" /\ last.err = NoError

\* C11: after every successful fit the estimator has each fitted attribute
\* the class documentation names, under exactly that name.
C11_DocumentedAttributesExposed ==
    SuccessfulFit => DocumentedAttributes \subseteq DOMAIN est

\* The statements of fit composed into one function of the configuration
\* and the arguments, started on an object without attributes: what a
\* fresh estimator ends with, as [err, est].
RECURSIVE NipalsLoop(_, _, _, _)
RECURSIVE NipalsLoopNext(_, _, _, _)
NipalsLoop(n, x_block, y_block, config) ==
    IF ~NipalsMore(n, config.n_components) THEN [err |-> NoError, nip |-> n]
    ELSE NipalsLoopNext(NipalsPass(n, x_block, y_block, config.tol,
                                   config.max_iter, config.deflation_mode),
                        x_block, y_block, config)
NipalsLoopNext(r, x_block, y_block, config) ==
    IF r.err # NoError THEN r ELSE NipalsLoop(r.nip, x_block, y_block, config)

NipalsStart(x_block, y_block, L_X_inv, L_Y_inv) ==
    [X |-> Centered(x_block.data_matrix), Y |-> Centered(y_block.data_matrix),
     W |-> <<>>, C |-> <<>>, T |-> <<>>, U |-> <<>>, P |-> <<>>, Q |-> <<>>,
     L_X_inv |-> L_X_inv, L_Y_inv |-> L_Y_inv, nan |-> FALSE]

FreshFailed(err) == [err |-> err, est |-> NoObject]

FreshAttached(e, x, y) ==
    IF x.err # NoError THEN FreshFailed(x.err)
    ELSE IF y.err # NoError THEN FreshFailed(y.err)
    ELSE [err |-> NoError,
          est |-> SetAttrs(e,
                     ("_x_block" :> x.block) @@ ("_y_block" :> y.block)
                     @@ ("x_rotations_" :> x.block.rotations)
                     @@ ("y_rotations_" :> y.block.rotations)
                     @@ ("x_loadings_" :> x.block.loadings)
                     @@ ("y_loadings_" :> y.block.loadings))]

FreshRotated(e, rx, ry) ==
    IF rx.err # NoError THEN FreshFailed(rx.err)
    ELSE IF ry.err # NoError THEN FreshFailed(ry.err)
    ELSE FreshAttached(
             SetAttrs(SetAttrs(e, "x_rotations_matrix_" :> rx.rotations),
                      YRotationsMatrixName :> ry.rotations),
             set_nipals_results(e["_x_block"], rx.rotations,
                                e["x_loadings_matrix_"]),
             set_nipals_results(e["_y_block"], ry.rotations,
                                e["y_loadings_matrix_"]))

FreshResults(e, n) ==
    FreshRotated(e,
        Rotations(e["x_weights_"], e["x_loadings_matrix_"],
                  e["_x_block"].G_data_weights, n.nan),
        Rotations(e["y_weights_"], e["y_loadings_matrix_"],
                  e["_y_block"].G_data_weights, n.nan))

FreshLooped(e, r) ==
    IF r.err # NoError THEN FreshFailed(r.err)
    ELSE FreshResults(SetAttrs(e, NipalsResults(r.nip)), r.nip)

FreshFactored(e, config, lx, ly) ==
    IF lx.err # NoError THEN FreshFailed(lx.err)
    ELSE IF ly.err # NoError THEN FreshFailed(ly.err)
    ELSE FreshLooped(e,
             NipalsLoop(NipalsStart(e["_x_block"], e["_y_block"],
                                    lx.L_inv, ly.L_inv),
                        e["_x_block"], e["_y_block"], config))

FreshBlocks(config, x, y) ==
    IF x.err # NoError THEN FreshFailed(x.err)
    ELSE IF y.err # NoError THEN FreshFailed(y.err)
    ELSE FreshFactored(
             SetAttrs(SetAttrs(NoObject, "_x_block" :> x.block),
                      "_y_block" :> y.block),
             config,
             get_cholesky_inv_penalty_matrix(x.block),
             get_cholesky_inv_penalty_matrix(y.block))

FreshFit(config, call) ==
    FreshBlocks(config,
        FPLSBlock(call.X, config.n_components, "X",
                  config.integration_weights_X, config.regularization_X,
                  config.component_basis_X),
        FPLSBlock(call.y, config.n_components, "Y",
                  config.integration_weights_Y, config.regularization_Y,
                  config.component_basis_Y))

\* The last statement of a fit that returns.
FitReturns == pc = "attach" /\ pc' = "idle" /\ last'.err = NoError

\* C12: a fit that returns leaves the estimator, both blocks included,
\* equal to a fresh estimator of the same configuration fitted on the same
\* arguments only, whatever it was fitted on before.
C12_RefitEqualsFreshFit ==
    [][FitReturns => /\ FreshFit(cfg, args).err = NoError
                     /\ est' = FreshFit(cfg, args).est]_vars

\* the second fit is about to return, the attributes of the first one,
\* on data of another kind and number of features, still set
C12_Witness ==
    /\ pc = "attach"
    /\ n_fits = 2
    /\ HasAttr(est, "x_rotations_")
    /\ est["x_rotations_"].kind # est["_x_block"].data.kind
    /\ Len(est["x_rotations_"].M[1]) # Cols(est["_x_block"].data_matrix)
    /\ FreshFit(cfg, args).err = NoError

\* A call to one of the six transform methods on an estimator whose last
\* fit returned.
TransformCall ==
    /\ pc = "idle" /\ pc' = "idle" /\ n_fits' = n_fits
    /\ TrailingUnderscore \subseteq DOMAIN est
    /\ last'.op \in TransformOps

\* C13: a call to any of the six transform methods of a fitted estimator
\* leaves every attribute of the estimator and of both blocks, and the
\* arrays the caller passed in, as they were.
C13_TransformsChangeNothing ==
    [][TransformCall => /\ est' = est
                        /\ cfg' = cfg
                        /\ env' = env]_vars

\* a transform_x of an array returned scores on a fitted estimator
C13_Witness ==
    /\ TrailingUnderscore \subseteq DOMAIN est
    /\ pc = "idle"
    /\ last.op = "transform_x"
    /\ last.err = NoError
    /\ est["_x_block"].data.kind = "ndarray"
    /\ Len(last.ret) = Len(X_multivariate2.M)
    /\ \E j \in 1..Len(est["_x_block"].mean) : est["_x_block"].mean[j] # 0

(***************************************************************************)
(* Claims about two estimators, under SpecTwo                              *)
(***************************************************************************)

\* The arguments a and b of fit are the same (a vector and a matrix do not
\* compare).
SameCall(a, b) == a.y.ndim = b.y.ndim /\ a = b

\* C14: whatever the interleaving of the statements of fit on two
\* estimators, the same objects passed to both included, a fit that
\* returns leaves its estimator as a fit running alone would, and a
\* statement of one estimator changes neither the other estimator nor the
\* objects of the caller.
C14_InstancesShareNothing ==
    [][/\ (FitReturns /\ peer'.id = peer.id)
            => /\ \E i \in DOMAIN RefitCalls : SameCall(args, RefitCalls[i])
               /\ est' = FreshFit(cfg, args).est
       /\ peer'.id = peer.id => peer' = peer
       /\ env' = env]_vars

\* both estimators are inside fit, on the same X object: one is about to
\* return, the other has made one pass of its loop
C14_Witness ==
    /\ peer # NoPeer
    /\ pc = "attach"
    /\ peer.pc = "nipals"
    /\ Len(peer.nip.W) = 1
    /\ peer.est["_x_block"].data = est["_x_block"].data
    /\ peer.cfg # cfg
    /\ FreshFit(cfg, args).err = NoError

(***************************************************************************)
(* Claims about the construction of a block                                *)
(***************************************************************************)
RecognizedKinds == {"ndarray", "grid", "basis"}

\* The combinations of arguments no implementation of _initialize_data
\* is registered for.
Unsupported(data, integration_weights, regularization, weights_basis) ==
    \/ data.kind \notin RecognizedKinds
    \/ integration_weights.some /\ data.kind \in {"ndarray", "basis"}
    \/ weights_basis.some /\ data.kind \in {"ndarray", "grid"}
    \/ regularization.some /\ data.kind = "ndarray"

\* The block construction r raised the unsupported-data error and gave no
\* block if the arguments are unsupported, and gave a block otherwise.
FailsIffUnsupported(r, unsupported) ==
    IF unsupported
    THEN /\ r.err = Raised("NotImplementedError", "_initialize_data")
         /\ r.block = NoObject
    ELSE /\ r.err = NoError
         /\ HasAttr(r.block, "data_matrix")

\* C15: the construction of a block raises the unsupported-data error and
\* yields no block exactly when the data is of none of the three kinds, or
\* integration weights come with an array or a basis representation, or a
\* weights basis with an array or a grid representation, or a
\* regularization with an array; any other combination gives a block.
C15_UnsupportedCombinationsRejected ==
    \A i \in DOMAIN env.calls :
        /\ FailsIffUnsupported(
               FPLSBlock(env.calls[i].X, cfg.n_components, "X",
                         cfg.integration_weights_X, cfg.regularization_X,
                         cfg.component_basis_X),
               Unsupported(env.calls[i].X, cfg.integration_weights_X,
                           cfg.regularization_X, cfg.component_basis_X))
        /\ FailsIffUnsupported(
               FPLSBlock(env.calls[i].y, cfg.n_components, "Y",
                         cfg.integration_weights_Y, cfg.regularization_Y,
                         cfg.component_basis_Y),
               Unsupported(env.calls[i].y, cfg.integration_weights_Y,
                           cfg.regularization_Y, cfg.component_basis_Y))

\* fit built the X block, of a grid with integration weights and a
\* regularization, and raised on the Y block
C15_Witness ==
    /\ pc = "idle"
    /\ last.op = "fit"
    /\ last.err = Raised("NotImplementedError", "_initialize_data")
    /\ HasAttr(est, "_x_block")
    /\ ~HasAttr(est, "_y_block")
    /\ est["_x_block"].data.kind = "grid"
    /\ cfg.integration_weights_Y.some
    /\ cfg.regularization_Y.some

(***************************************************************************)
(* Claims about the weights and the scores                                 *)
(***************************************************************************)

\* sqrt(v' G v), the norm of v under the Gram matrix G
GramNorm(v, G) == Sqrt(RawDot(v, MatVec(G, v)))

\* v has norm one under G, up to the rounding of the normalization
UnitGramNorm(v, G) == Abs(GramNorm(v, G) - SCALE) <= 3

\* C16: the weights w and c of every pass of the NIPALS loop have norm one
\* under the Gram matrix of their block, for every kind of block and every
\* pass, the passes on a zero residual cross-covariance included.
C16_WeightsUnitGramNorm ==
    (nip # <<>>) =>
        \A k \in 1..Len(nip.W) :
            /\ UnitGramNorm(nip.W[k], est["_x_block"].G_weights)
            /\ UnitGramNorm(nip.C[k], est["_y_block"].G_weights)

\* The data a block was built from: its centered data and its mean.
TrainingData(block) ==
    IF block.data.kind = "ndarray"
    THEN NDArray2(AddRow(block.data_matrix, block.mean))
    ELSE FAdd(block.data, block.mean)

\* the matrices A and B agree entry by entry, up to eps
CloseMat(A, B, eps) ==
    /\ Len(A) = Len(B)
    /\ \A i \in 1..Len(A) : Len(A[i]) = Len(B[i]) /\ CloseVec(A[i], B[i], eps)

\* The transform of the training data of a block gives the scores.
ReproducesScores(block, scores) ==
    CloseMat(block_transform(block, TrainingData(block)).v, scores, 3)

BothMultivariate ==
    /\ est["_x_block"].data.kind = "ndarray"
    /\ est["_y_block"].data.kind = "ndarray"

\* C17: after a fit on arrays, in any deflation mode and for any number of
\* components, transform of the training data gives x_scores_ for X and
\* y_scores_ for Y, column by column, up to the tolerance.
C17_TransformReproducesScores ==
    (SuccessfulFit /\ BothMultivariate)
        => /\ ReproducesScores(est["_x_block"], est["x_scores_"])
           /\ ReproducesScores(est["_y_block"], est["y_scores_"])

\* The rank of the centered data of at most three samples, which is at
\* most two: two when some 2 x 2 minor does not vanish.
RankOfCentered(M) ==
    IF \E i \in 1..Len(M), k \in 1..Len(M), j \in 1..Cols(M), l \in 1..Cols(M) :
          M[i][j] * M[k][l] # M[i][l] * M[k][j]
    THEN 2
    ELSE IF \E i \in 1..Len(M), j \in 1..Cols(M) : M[i][j] # 0 THEN 1
    ELSE 0

\* inverse_transform_x(transform_x(X)) on the training data of the block
RoundTrip(block) ==
    block_inverse_transform(block,
        block_transform(block, TrainingData(block)).v).v

\* C18: after a fit with as many components as the rank of the centered X,
\* inverse_transform of transform of the training X is the training X up
\* to the tolerance, in the representation of the X block, for each of
\* the three kinds.
C18_RoundTripRecoversX ==
    (SuccessfulFit
     /\ cfg.n_components = RankOfCentered(Centered(est["_x_block"].data_matrix)))
        => /\ RoundTrip(est["_x_block"]).kind = est["_x_block"].data.kind
           /\ CloseMat(RoundTrip(est["_x_block"]).M,
                       TrainingData(est["_x_block"]).M, 5)

(***************************************************************************)
(* Claims about the order of a NIPALS pass                                 *)
(***************************************************************************)

\* The pass from the working record n to n2 took its weights wc, its
\* scores and its loadings from the matrices of n, deflated both of them
\* by the rank-one terms of the pass only, and kept the two factors.
PassInOrder(n, n2, wc, x_block, y_block, y_proy) ==
    /\ Last(n2.W) = wc.w
    /\ Last(n2.C) = wc.c
    /\ Last(n2.T) = MatVec(MatMul(n.X, x_block.G_data_weights), wc.w)
    /\ Last(n2.U) = MatVec(MatMul(n.Y, y_block.G_data_weights), wc.c)
    /\ Last(n2.P) = Loading(n.X, Last(n2.T))
    /\ Last(n2.Q) = Loading(n.Y, y_proy)
    /\ n2.X = MatSub(n.X, Outer(Last(n2.T), Last(n2.P)))
    /\ n2.Y = MatSub(n.Y, Outer(y_proy, Last(n2.Q)))
    /\ n2.L_X_inv = n.L_X_inv
    /\ n2.L_Y_inv = n.L_Y_inv

\* C20: every pass of the NIPALS loop computes its weights, then its
\* scores, then its loadings from the working matrices the passes before
\* it left, and deflates both matrices only then; the next pass starts
\* from the deflated matrices; the data_matrix of the blocks is never
\* deflated; the inverse Cholesky factors are those computed before the
\* first pass.
C20_PassOrderAndDeflation ==
    [][NipalsStepped
        => /\ PassInOrder(nip, nip',
                 calculate_weights(nip.X, nip.Y,
                     est["_x_block"].G_weights, est["_x_block"].G_data_weights,
                     est["_y_block"].G_weights, est["_y_block"].G_data_weights,
                     nip.L_X_inv, nip.L_Y_inv, cfg.tol, cfg.max_iter),
                 est["_x_block"], est["_y_block"],
                 IF cfg.deflation_mode = "reg"
                 THEN Last(nip'.T) ELSE Last(nip'.U))
           /\ est' = est
           /\ nip.L_X_inv
                = get_cholesky_inv_penalty_matrix(est["_x_block"]).L_inv
           /\ nip.L_Y_inv
                = get_cholesky_inv_penalty_matrix(est["_y_block"]).L_inv]_vars

\* two passes were made, each deflating both working matrices, on blocks
\* with a regularization
C20_Witness ==
    /\ pc = "nipals"
    /\ Len(nip.W) = 2
    /\ cfg.regularization_X.some
    /\ \E j \in 1..Len(nip.T[2]) : nip.T[2][j] # 0
    /\ \E j \in 1..Len(nip.U[2]) : nip.U[2][j] # 0
    /\ nip.X # Centered(est["_x_block"].data_matrix)
    /\ nip.Y # Centered(est["_y_block"].data_matrix)
    /\ nip.Y # MatSub(Centered(est["_y_block"].data_matrix),
                      Outer(nip.U[1], nip.Q[1]))

(***************************************************************************)
(* MultipleDisplay (skfda/exploratory/visualization/_multiple_display.py)  *)
(*                                                                         *)
(* Samples are numbered from 0 as in the code.  An artist is the record of *)
(* the display it was drawn by, its sample and its axes within the         *)
(* display.  Each callback runs to its end before the next event is        *)
(* handled: the event loop of the figure has a single thread.              *)
(***************************************************************************)

\* Number of samples of the displays, and largest number of sliders.
LengthData == 3
MaxSliders == 2

\* artist.set_alpha(1.0 if i == selected_sample else 0.1)
Alpha(i, selected_sample) == IF i = selected_sample THEN SCALE ELSE SCALE \div 10

\* d.artists of the displays of self.displays that have them: the first
\* display has one axes and the second has two.  A third display keeps no
\* artists (artists is None).
DisplayArtists ==
    {a \in [display : 1..2, sample : 0..(LengthData - 1), axes : 1..2] :
        a.axes <= a.display}

\* The artists a pick event can carry: those of the displays, an artist
\* in the axes of the display without artists, an artist in the axes of a
\* slider (display 0), and an artist drawn in the axes of the first display
\* that is not one of its artists (sample -1).
PickedArtists ==
    DisplayArtists
    \cup {[display |-> 3, sample |-> 0, axes |-> 1],
          [display |-> 0, sample |-> 0, axes |-> 1],
          [display |-> 1, sample |-> 0 - 1, axes |-> 1]}

\* MultipleDisplay._sample_from_artist: [err, sample]
sample_from_artist(artist) ==
    IF \E a \in DisplayArtists :
          a.display = artist.display /\ a.axes = artist.axes
    THEN IF artist \in DisplayArtists
         THEN [err |-> "none", sample |-> Some(artist.sample)]
         ELSE \* np.where(...)[0][0] of no match
              [err |-> "IndexError", sample |-> None]
    ELSE [err |-> "none", sample |-> None]

\* _set_val_noevents(widget, val); widget.set_val notifies the observers
\* of the widget when eventson is set
set_val_noevents(widget, val) ==
    LET e == widget.eventson
        off == [widget EXCEPT !.eventson = FALSE]
        set == [off EXCEPT !.val = val,
                           !.notified = off.notified \/ off.eventson]
    IN [set EXCEPT !.eventson = e]

\* MultipleDisplay._select_sample from step k on: step 0 sets the alpha of
\* the artists that _visit_artists yields (those of the displays once they
\* are drawn), step k >= 1 is the turn of slider k in the loop over
\* zip(self.criteria, self.sliders), where criterion.index raises
\* ValueError for a sample the criterion does not hold, and the step after
\* the last slider assigns selected_sample.
RECURSIVE select_sample(_, _, _)
select_sample(self, selected_sample, k) ==
    IF k = 0
    THEN select_sample(
             [self EXCEPT !.alpha =
                 [a \in DOMAIN self.alpha |->
                     Alpha(a.sample, selected_sample)]],
             selected_sample, 1)
    ELSE IF k > Len(self.sliders)
    THEN [self EXCEPT !.selected_sample = Some(selected_sample)]
    ELSE IF \A p \in DOMAIN self.criteria[k] :
                self.criteria[k][p] # selected_sample
    THEN [self EXCEPT !.err = "ValueError"]
    ELSE select_sample(
             [self EXCEPT !.sliders[k] =
                 set_val_noevents(@,
                     (CHOOSE p \in DOMAIN self.criteria[k] :
                         self.criteria[k][p] = selected_sample
                         /\ \A q \in 1..(p - 1) :
                               self.criteria[k][q] # selected_sample) - 1)],
             selected_sample, k + 1)

\* MultipleDisplay._deselect_samples
deselect_samples(self) ==
    [self EXCEPT !.alpha = [a \in DOMAIN self.alpha |-> SCALE],
                 !.selected_sample = None]

\* [x for _, x in sorted(zip(criterion, range(self.length_data)))]
SortedIndexes(criterion) ==
    LET m == IF Len(criterion) < LengthData THEN Len(criterion) ELSE LengthData
        Before(x, y) ==
            \/ criterion[x + 1] < criterion[y + 1]
            \/ criterion[x + 1] = criterion[y + 1] /\ x < y
    IN [p \in 1..m |->
           CHOOSE x \in 0..(m - 1) :
               Cardinality({y \in 0..(m - 1) : Before(y, x)}) = p - 1]

\* The criteria callers pass: of the length of the data, shorter and
\* longer, with and without ties.
Criteria ==
    UNION {[1..n -> 0..1] : n \in (LengthData - 1)..(LengthData + 1)}

\* An event is handled from the display as the last handler left it.
Handling(event) ==
    [md EXCEPT !.event = event, !.err = "none",
               !.sliders = [k \in DOMAIN md.sliders |->
                               [md.sliders[k] EXCEPT !.notified = FALSE]]]

\* MultipleDisplay.add_slider(axes, criterion), called by the user
AddSlider ==
    /\ md # NoObject
    /\ Len(md.sliders) < MaxSliders
    /\ \E criterion \in Criteria :
          md' = [Handling([kind |-> "add_slider"]) EXCEPT
                    !.sliders = Append(@, [val |-> 0, eventson |-> TRUE,
                                           notified |-> FALSE]),
                    !.criteria = Append(@, SortedIndexes(criterion))]

\* MultipleDisplay.plot(): the axes are cleared and every display draws
\* its artists anew
Plot ==
    /\ md # NoObject
    /\ md' = [Handling([kind |-> "plot"]) EXCEPT
                 !.plotted = TRUE,
                 !.alpha = [a \in DisplayArtists |-> SCALE]]

\* MultipleDisplay.pick(event), connected by plot
Pick ==
    /\ md # NoObject
    /\ md.plotted
    /\ \E artist \in PickedArtists :
         \E found \in {sample_from_artist(artist)},
            self \in {Handling([kind |-> "pick", artist |-> artist])} :
            md' = IF found.err # "none" THEN [self EXCEPT !.err = found.err]
                  ELSE IF ~found.sample.some THEN self
                  ELSE IF self.selected_sample = found.sample
                  THEN deselect_samples(self)
                  ELSE select_sample(self, found.sample.v, 0)

\* MultipleDisplay._value_updated(value, criterion_sample_indexes), the
\* observer of slider k, after the user moved the slider to value
SliderChanged ==
    /\ md # NoObject
    /\ \E k \in DOMAIN md.sliders, value \in 0..(LengthData - 1) :
         \E self \in {[Handling([kind |-> "slider", slider |-> k,
                                 value |-> value])
                          EXCEPT !.sliders[k].val = value,
                                 !.sliders[k].notified = TRUE]} :
            md' = IF value >= Len(self.criteria[k])
                  THEN [self EXCEPT !.err = "IndexError"]
                  ELSE select_sample(
                           [self EXCEPT !.selected_sample =
                               Some(self.criteria[k][value + 1])],
                           self.criteria[k][value + 1], 0)

\* MultipleDisplay(displays, criteria, sliders): the criteria of the
\* constructor are of the length of the data
InitDisplay ==
    /\ ps = PsIdle
    /\ cfg = <<>> /\ est = NoObject /\ pc = "idle" /\ nip = <<>>
    /\ args = <<>> /\ last = NoCall /\ n_fits = 0 /\ env = <<>>
    /\ peer = NoPeer
    /\ \E criteria \in {<<>>} \cup {<<c>> : c \in [1..LengthData -> 0..1]} :
          md = [plotted |-> FALSE,
                selected_sample |-> None,
                alpha |-> <<>>,
                sliders |-> [k \in DOMAIN criteria |->
                                [val |-> 0, eventson |-> TRUE,
                                 notified |-> FALSE]],
                criteria |-> [k \in DOMAIN criteria |->
                                 SortedIndexes(criteria[k])],
                event |-> [kind |-> "init"],
                err |-> "none"]

NextDisplay ==
    \/ Plot /\ UNCHANGED <<ps, cfg, est, pc, nip, args, last, n_fits, env, peer>>
    \/ Pick /\ UNCHANGED <<ps, cfg, est, pc, nip, args, last, n_fits, env, peer>>
    \/ SliderChanged /\ UNCHANGED <<ps, cfg, est, pc, nip, args, last, n_fits, env, peer>>
    \/ AddSlider /\ UNCHANGED <<ps, cfg, est, pc, nip, args, last, n_fits, env, peer>>

SpecDisplay == InitDisplay /\ [][NextDisplay]_vars

(***************************************************************************)
(* Claims about MultipleDisplay, under SpecDisplay                         *)
(***************************************************************************)

\* The points of sample s stand out: they are opaque, all others faded.
StandsOut(self, s) ==
    \A a \in DisplayArtists :
        self.alpha[a] = IF a.sample = s THEN SCALE ELSE SCALE \div 10

AllOpaque(self) == \A a \in DisplayArtists : self.alpha[a] = SCALE

\* C19: a pick on a point of a sample that is not the selected one makes
\* it the selected sample, opaque among faded points; a pick on a point of
\* the selected sample clears the selection and makes every point opaque;
\* a pick on an artist of no display changes nothing.
C19_PickToggles ==
    [][md'.event.kind = "pick"
        => IF md'.event.artist \in DisplayArtists
           THEN IF md.selected_sample = Some(md'.event.artist.sample)
                THEN /\ md'.selected_sample = None
                     /\ AllOpaque(md')
                ELSE /\ md'.selected_sample = Some(md'.event.artist.sample)
                     /\ StandsOut(md', md'.event.artist.sample)
           ELSE /\ md'.selected_sample = md.selected_sample
                /\ md'.alpha = md.alpha
                /\ md'.criteria = md.criteria
                /\ \A k \in DOMAIN md.sliders :
                     md'.sliders[k].val = md.sliders[k].val]_vars

\* s is held by the ordering at rank r (from 0), and not before it
RankIs(ordering, s, r) ==
    /\ r + 1 \in DOMAIN ordering
    /\ ordering[r + 1] = s
    /\ \A q \in 1..r : ordering[q] # s

\* C21: when slider k changes to value v the selected sample becomes the
\* v-th sample of the ordering of slider k, every slider then shows the rank
\* of that sample in its own ordering, no observer of another slider is
\* notified by the synchronization, and eventson of every widget is as it
\* was before.
C21_SliderChangeSynchronizes ==
    [][md'.event.kind = "slider"
        => /\ md'.event.value + 1 \in DOMAIN md.criteria[md'.event.slider]
           /\ md'.selected_sample
                  = Some(md.criteria[md'.event.slider][md'.event.value + 1])
           /\ \A j \in DOMAIN md'.sliders :
                  /\ RankIs(md'.criteria[j], md'.selected_sample.v,
                            md'.sliders[j].val)
                  /\ md'.sliders[j].eventson = md.sliders[j].eventson
                  /\ j # md'.event.slider => ~md'.sliders[j].notified]_vars

\* The drawn opacity agrees with selected_sample.
OpacityAgrees(self) ==
    \A a \in DOMAIN self.alpha :
        self.alpha[a] = IF self.selected_sample = None THEN SCALE
                        ELSE Alpha(a.sample, self.selected_sample.v)

\* C22: after any sequence of plot calls, pick events and slider changes,
\* every point is opaque when no sample is selected, and otherwise the
\* points of the selected sample are opaque and all others have alpha 0.1.
C22_OpacityAgreesWithSelection == md # NoObject => OpacityAgrees(md)

IsPermutation(ordering) ==
    /\ Len(ordering) = LengthData
    /\ \A s \in 0..(LengthData - 1) :
          \E p \in DOMAIN ordering : ordering[p] = s

\* C23: every ordering stored in criteria is a permutation of
\* 0..length_data-1, for the sliders of the constructor and for those added
\* through add_slider, so that the look-up of the rank of the selected
\* sample never fails and a slider value always maps to a sample.
C23_CriteriaArePermutations ==
    md # NoObject
        => /\ \A k \in DOMAIN md.criteria : IsPermutation(md.criteria[k])
           /\ md.err # "ValueError"
           /\ md.event.kind = "slider" => md.err = "none"

====
